---- MODULE Spec2Model ----
(***************************************************************************)
(* Model of the agent host of sparky0520/agents.ai_python:                 *)
(*   - the Reddit Scout workflow (agent_package/reddit_scout.py): the      *)
(*     search -> analyze -> check_conditions graph and its state;          *)
(*   - the agent loader (agent_loader.py): fetch from the store, rewrite   *)
(*     the cache directory, select and import the script.                  *)
(* Scores are the code's floats times 100 (0.95 -> 95).                    *)
(***************************************************************************)
EXTENDS Integers, Sequences, FiniteSets, TLC

VARIABLES
    state,        \* the AgentState threaded through the graph
    node,         \* the step the engine executes next, or "END"
    skipped,      \* observation: the qualifying comments dropped as duplicates
    steps,        \* observation: the nodes executed since the latest entry of
                  \* search, in order
    faults,       \* observation: the calls that raised and returned nothing, as
                  \* [tool, at]: searches of this iteration, fetches of the run
    obtained,     \* observation: what the latest node's external calls returned
    fetches,      \* observation: per thread id, the comment fetches made
    revisited,    \* observation: the threads the latest analyze met visited,
                  \* of those whose comment fetch had raised
    reordered,    \* observation: analyze_node's usernames on every reordered input
    searches,     \* observation: the search steps executed, counted up to one
                  \* more than the iteration bound allows
    fs,           \* the agent's cache directory: [exists, files: name -> content]
    call,         \* per caller of get_agent_module: its position and locals
    sys_modules,  \* sys.modules: module name -> the code it was executed from
    uri_set,      \* whether MONGODB_URI is set in this process
    latest,       \* observation: the ArtifactSet of the latest successful fetch
    selected      \* observation: the script the last load of `latest`
                  \* selected, as a set of at most one name

scoutVars == <<state, node, skipped, steps, faults, obtained, fetches, revisited,
               reordered, searches>>
loaderVars == <<fs, call, sys_modules, uri_set, latest, selected>>
vars == <<state, node, skipped, steps, faults, obtained, fetches, revisited,
          reordered, searches, fs, call, sys_modules, uri_set, latest, selected>>

None == "None"

(***************************************************************************)
(* Bounds and program constants                                            *)
(***************************************************************************)
MaxComments == 2          \* longest comment listing the site returns
MaxFiles == 3             \* most files in one ArtifactSet of the store

SearchLimit == 3          \* search_reddit(..., limit=3)
CommentLimit == 20        \* get_thread_comments(..., limit=20)
MaxIterations == 3        \* check_conditions_node: iteration > 3
InitialIteration == 1     \* get_initial_state: "iteration": 1

(***************************************************************************)
(* The external site: submissions, authors, comment texts                  *)
(***************************************************************************)
Subreddits == {"s1", "s2"}

Submissions ==
    { [id |-> "p1", permalink |-> "/r/s1/p1", title |-> "T1", subreddit |-> "s1"],
      [id |-> "p2", permalink |-> "/r/s2/p2", title |-> "T2", subreddit |-> "s2"] }

Authors == {"u1", "u2"}

\* A text is modelled by the set of known phrases it contains.
ExplicitPhrases == {"i'd pay", "willing to pay", "happily pay", "don't mind paying"}
ConsideringPhrases ==
    {"paid alternative", "free apps aren't", "invest in", "subscription",
     "worth it", "pricing"}

PayText == {"i'd pay", "pricing"}
SubText == {"subscription"}
LowText == {}
Texts == {PayText, SubText, LowText}

\* Raw comments of a listing; a deleted comment has no author.
RawComments ==
    { [author |-> "u1", body |-> PayText],
      [author |-> "u1", body |-> SubText],
      [author |-> "u2", body |-> LowText],
      [author |-> None, body |-> PayText] }

\* Input choices of a run.
TargetChoices == {<<"s1", "s2">>, <<"s2", "s1">>, <<"s1", "s1">>}
MaxUsersChoices == {1, 2}
MinScoreChoices == {10, 70}

SeqsUpTo(S, n) == UNION {[1..k -> S] : k \in 0..n}

Range(s) == {s[i] : i \in 1..Len(s)}

Distinct(s) == \A i, j \in 1..Len(s) : i /= j => s[i] /= s[j]

\* What one search of a subreddit can yield: distinct submissions of that
\* subreddit, at most `limit`, and possibly an exception after them.
SearchOutcomes(sub) ==
    { [yielded |-> y, raised |-> r] :
        y \in {l \in SeqsUpTo({p \in Submissions : p.subreddit = sub}, SearchLimit) :
                 Distinct(l)},
        r \in BOOLEAN }

\* What one comment fetch can yield: a listing, or an exception before it.
CommentOutcomes ==
    { [listing |-> l, raised |-> FALSE] : l \in SeqsUpTo(RawComments, MaxComments) }
      \cup { [listing |-> <<>>, raised |-> TRUE] }

(***************************************************************************)
(* Tools                                                                   *)
(***************************************************************************)
Url(permalink) == <<"https://reddit.com", permalink>>

search_reddit_drops_on_raise(outcome, subreddit) ==
    IF outcome.raised THEN <<>>
    ELSE [i \in 1..Len(outcome.yielded) |->
            [id |-> outcome.yielded[i].id,
             url |-> Url(outcome.yielded[i].permalink),
             title |-> outcome.yielded[i].title,
             subreddit |-> subreddit]]

search_reddit(outcome, subreddit) ==
    [i \in 1..Len(outcome.yielded) |->
        [id |-> outcome.yielded[i].id,
         url |-> Url(outcome.yielded[i].permalink),
         title |-> outcome.yielded[i].title,
         subreddit |-> subreddit]]

RECURSIVE TakeAuthored(_, _)
TakeAuthored(listing, limit) ==
    IF listing = <<>> \/ limit = 0 THEN <<>>
    ELSE IF Head(listing).author /= None
         THEN <<[author |-> Head(listing).author, text |-> Head(listing).body]>>
                 \o TakeAuthored(Tail(listing), limit - 1)
         ELSE TakeAuthored(Tail(listing), limit)

get_thread_comments(outcome, limit) ==
    IF outcome.raised THEN <<>> ELSE TakeAuthored(outcome.listing, limit)

analyze_intent(text) ==
    IF text \cap ExplicitPhrases /= {} THEN 95
    ELSE IF text \cap ConsideringPhrases /= {} THEN 80
    ELSE 30

(***************************************************************************)
(* Nodes                                                                   *)
(***************************************************************************)
RECURSIVE SearchAll(_, _)
SearchAll(subreddits, outcomes) ==
    IF subreddits = <<>> THEN <<>>
    ELSE search_reddit(Head(outcomes), Head(subreddits))
            \o SearchAll(Tail(subreddits), Tail(outcomes))

search_node_no_increment(st, outcomes) ==
    [threads_to_process |-> SearchAll(st.target_subreddits, outcomes),
     iteration |-> st.iteration]

search_node_resets_visited(st, outcomes) ==
    [threads_to_process |-> SearchAll(st.target_subreddits, outcomes),
     iteration |-> st.iteration + 1,
     visited_threads |-> {}]

search_node(st, outcomes) ==
    [threads_to_process |-> SearchAll(st.target_subreddits, outcomes),
     iteration |-> st.iteration + 1]

HasUser(cands, username) == \E i \in 1..Len(cands) : cands[i].username = username

\* One comment of one thread (the body of the inner loop).
ProcessCommentNoDedup(cands, thread, comment, min_score) ==
    IF analyze_intent(comment.text) >= min_score
    THEN Append(cands, [username |-> comment.author,
                        intent_score |-> analyze_intent(comment.text),
                        subreddit |-> thread.subreddit,
                        thread_title |-> thread.title,
                        evidence |-> comment.text,
                        thread_url |-> thread.url])
    ELSE cands

ProcessCommentOverwrite(cands, thread, comment, min_score) ==
    IF analyze_intent(comment.text) >= min_score
    THEN IF HasUser(cands, comment.author)
         THEN [i \in 1..Len(cands) |->
                 IF cands[i].username = comment.author
                 THEN [username |-> comment.author,
                       intent_score |-> analyze_intent(comment.text),
                       subreddit |-> thread.subreddit,
                       thread_title |-> thread.title,
                       evidence |-> comment.text,
                       thread_url |-> thread.url]
                 ELSE cands[i]]
         ELSE ProcessCommentNoDedup(cands, thread, comment, min_score)
    ELSE cands

ProcessComment(cands, thread, comment, min_score) ==
    IF analyze_intent(comment.text) >= min_score
    THEN IF HasUser(cands, comment.author)
         THEN cands
         ELSE Append(cands, [username |-> comment.author,
                             intent_score |-> analyze_intent(comment.text),
                             subreddit |-> thread.subreddit,
                             thread_title |-> thread.title,
                             evidence |-> comment.text,
                             thread_url |-> thread.url])
    ELSE cands

RECURSIVE ProcessCommentsStopAtFirst(_, _, _, _)
ProcessCommentsStopAtFirst(cands, thread, comments, min_score) ==
    IF comments = <<>> THEN cands
    ELSE IF ProcessComment(cands, thread, Head(comments), min_score) /= cands
         THEN ProcessComment(cands, thread, Head(comments), min_score)
         ELSE ProcessCommentsStopAtFirst(cands, thread, Tail(comments), min_score)

RECURSIVE ProcessComments(_, _, _, _)
ProcessComments(cands, thread, comments, min_score) ==
    IF comments = <<>> THEN cands
    ELSE ProcessComments(ProcessComment(cands, thread, Head(comments), min_score),
                         thread, Tail(comments), min_score)

RECURSIVE ProcessThreadsNoMark(_, _, _, _)
ProcessThreadsNoMark(acc, threads, fetch, min_score) ==
    IF threads = <<>> THEN acc
    ELSE IF Head(threads).url \in acc.visited
         THEN ProcessThreadsNoMark(acc, Tail(threads), fetch, min_score)
         ELSE ProcessThreadsNoMark(
                [visited |-> acc.visited,
                 candidates |->
                    ProcessComments(acc.candidates, Head(threads),
                        get_thread_comments(fetch[Head(threads).id], CommentLimit),
                        min_score),
                 fetched |-> Append(acc.fetched, Head(threads).id)],
                Tail(threads), fetch, min_score)

\* The outer loop: acc is [visited, candidates, fetched]; fetch maps a thread
\* id to the outcome of its comment fetch; fetched lists the thread ids
\* get_thread_comments was called for, in call order.
RECURSIVE ProcessThreads(_, _, _, _)
ProcessThreads(acc, threads, fetch, min_score) ==
    IF threads = <<>> THEN acc
    ELSE IF Head(threads).url \in acc.visited
         THEN ProcessThreads(acc, Tail(threads), fetch, min_score)
         ELSE ProcessThreads(
                [visited |-> acc.visited \cup {Head(threads).url},
                 candidates |->
                    ProcessComments(acc.candidates, Head(threads),
                        get_thread_comments(fetch[Head(threads).id], CommentLimit),
                        min_score),
                 fetched |-> Append(acc.fetched, Head(threads).id)],
                Tail(threads), fetch, min_score)

AnalyzeLoop(st, fetch) ==
    ProcessThreads([visited |-> st.visited_threads,
                    candidates |-> st.candidates,
                    fetched |-> <<>>],
                   st.threads_to_process, fetch, st.min_intent_score)

analyze_node(st, fetch) ==
    LET out == AnalyzeLoop(st, fetch)
    IN [visited_threads |-> out.visited,
        candidates |-> out.candidates,
        threads_to_process |-> <<>>]

check_conditions_node_late_bound(st) ==
    [is_complete |->
        IF Len(st.candidates) >= st.max_users THEN TRUE
        ELSE IF st.iteration > MaxIterations + 1 THEN TRUE
        ELSE FALSE]

check_conditions_node_above_target(st) ==
    [is_complete |->
        IF Len(st.candidates) > st.max_users THEN TRUE
        ELSE IF st.iteration > MaxIterations THEN TRUE
        ELSE FALSE]

check_conditions_node(st) ==
    [is_complete |->
        IF Len(st.candidates) >= st.max_users THEN TRUE
        ELSE IF st.iteration > MaxIterations THEN TRUE
        ELSE FALSE]

should_continue_done_label(st) == IF st.is_complete THEN "done" ELSE "continue"

should_continue(st) == IF st.is_complete THEN "end" ELSE "continue"

\* build_graph: the declared nodes, the entry point and the plain edges.
Nodes == {"search", "analyze", "check_conditions"}

EntryPoint == "search"

Edges == [search |-> "analyze", analyze |-> "check_conditions"]

ConditionalEdgesSkipSearch == [continue |-> "analyze", end |-> "END"]

\* build_graph: the conditional edge map of check_conditions.
ConditionalEdges == [continue |-> "search", end |-> "END"]

get_initial_state(inputs) ==
    [query |-> inputs.query,
     target_subreddits |-> inputs.target_subreddits,
     max_users |-> inputs.max_users,
     min_intent_score |-> inputs.min_intent_score,
     reddit_creds |-> [client_id |-> "id", client_secret |-> "secret",
                       user_agent |-> "agent"],
     visited_threads |-> {},
     candidates |-> <<>>,
     threads_to_process |-> <<>>,
     iteration |-> InitialIteration,
     is_complete |-> FALSE]

get_result(st) ==
    [status |-> "success",
     candidates |-> st.candidates,
     total_count |-> Len(st.candidates),
     metadata |-> [iterations |-> st.iteration - 1,
                   visited_threads_count |-> Cardinality(st.visited_threads)]]

(***************************************************************************)
(* The engine: run a node, merge its partial update, follow the edge       *)
(***************************************************************************)
Merge(st, update) ==
    [k \in DOMAIN st |-> IF k \in DOMAIN update THEN update[k] ELSE st[k]]

\* The conditional edge of check_conditions: the label the router returns is
\* looked up in the edge map; a label the map lacks is a routing error.
Route(st) ==
    IF should_continue(st) \in DOMAIN ConditionalEdges
    THEN ConditionalEdges[should_continue(st)]
    ELSE "RoutingError"

\* The ids of the queued threads whose comments analyze_node will fetch.
ToFetch(st) ==
    {st.threads_to_process[i].id : i \in
        {j \in 1..Len(st.threads_to_process) :
            st.threads_to_process[j].url \notin st.visited_threads}}

\* Observation of the dedup branch of the inner loop: the qualifying comments
\* whose author was already in the list (the `continue`), as
\* [username, intent_score]; users is the set of usernames in the list.
RECURSIVE SkippedComments(_, _, _)
SkippedComments(users, comments, min_score) ==
    IF comments = <<>> THEN {}
    ELSE IF analyze_intent(Head(comments).text) >= min_score
         THEN (IF Head(comments).author \in users
               THEN {[username |-> Head(comments).author,
                      intent_score |-> analyze_intent(Head(comments).text)]}
               ELSE {})
              \cup SkippedComments(users \cup {Head(comments).author},
                                   Tail(comments), min_score)
         ELSE SkippedComments(users, Tail(comments), min_score)

QualifyingAuthors(comments, min_score) ==
    {comments[i].author : i \in
        {j \in 1..Len(comments) : analyze_intent(comments[j].text) >= min_score}}

RECURSIVE SkippedThreads(_, _, _, _, _)
SkippedThreads(visited, users, threads, fetch, min_score) ==
    IF threads = <<>> THEN {}
    ELSE IF Head(threads).url \in visited
         THEN SkippedThreads(visited, users, Tail(threads), fetch, min_score)
         ELSE LET comments ==
                     get_thread_comments(fetch[Head(threads).id], CommentLimit)
              IN SkippedComments(users, comments, min_score)
                 \cup SkippedThreads(visited \cup {Head(threads).url},
                                     users \cup QualifyingAuthors(comments, min_score),
                                     Tail(threads), fetch, min_score)

Usernames(cands) == {cands[i].username : i \in 1..Len(cands)}

ThreadIds == {p.id : p \in Submissions}

Count(s, x) == Cardinality({i \in 1..Len(s) : s[i] = x})

\* s, and s with two neighbours exchanged at any one place. Every order of s
\* is reached by such exchanges.
Reorderings(s) ==
    {s} \cup { [i \in 1..Len(s) |-> IF i = k THEN s[k + 1]
                                     ELSE IF i = k + 1 THEN s[k] ELSE s[i]] :
                  k \in 1..(Len(s) - 1) }

\* The same comment fetches, the listing of one thread reordered.
FetchReorderings(fetch) ==
    {fetch} \cup
    UNION { { [fetch EXCEPT ![id].listing = l] : l \in Reorderings(fetch[id].listing) } :
              id \in DOMAIN fetch }

\* The usernames analyze_node leaves in candidates when the work queue, or
\* the comments of a thread, come in another order. The step draws every
\* listing, so agreement under one exchange for every input is agreement
\* under every order.
ReorderedUsernames(st, fetch) ==
    { Usernames(analyze_node([st EXCEPT !.threads_to_process = q], fetch).candidates) :
        q \in Reorderings(st.threads_to_process) }
    \cup { Usernames(analyze_node(st, f).candidates) : f \in FetchReorderings(fetch) }

\* The search calls of search_node that raised before any result, and the
\* ids all the search calls yielded.
SearchFaults(st, outcomes) ==
    {[tool |-> "search", at |-> st.target_subreddits[i]] :
        i \in {j \in DOMAIN outcomes :
                 outcomes[j].raised /\ outcomes[j].yielded = <<>>}}

SearchYield(outcomes) ==
    UNION {{outcomes[i].yielded[j].id : j \in 1..Len(outcomes[i].yielded)} :
             i \in DOMAIN outcomes}

\* The comment fetches of analyze_node that raised, and the authors of the
\* qualifying comments the fetches returned.
CommentFaults(fetch) ==
    {[tool |-> "comments", at |-> id] : id \in {j \in DOMAIN fetch : fetch[j].raised}}

CommentYield(fetch, min_score) ==
    UNION {QualifyingAuthors(get_thread_comments(fetch[id], CommentLimit), min_score) :
             id \in DOMAIN fetch}

\* The queued threads met by the `if url in visited: continue` of the loop
\* because an earlier step had visited them, of those in ids.
Revisited(st, ids) ==
    {st.threads_to_process[i].id : i \in
        {j \in 1..Len(st.threads_to_process) :
            /\ st.threads_to_process[j].url \in st.visited_threads
            /\ st.threads_to_process[j].id \in ids}}

NothingObserved ==
    /\ skipped = {}
    /\ steps = <<>>
    /\ faults = {}
    /\ obtained = {}
    /\ fetches = [id \in ThreadIds |-> 0]
    /\ revisited = {}
    /\ reordered = {}
    /\ searches = 0

InitScout ==
    /\ NothingObserved
    /\ \E t \in TargetChoices, m \in MaxUsersChoices, s \in MinScoreChoices :
          state = get_initial_state([query |-> "q", target_subreddits |-> t,
                                     max_users |-> m, min_intent_score |-> s])
    /\ node = EntryPoint

SearchStep ==
    /\ node = "search"
    /\ \E outcomes \in
            {o \in [1..Len(state.target_subreddits) ->
                        UNION {SearchOutcomes(s) : s \in Subreddits}] :
                \A i \in DOMAIN o : o[i] \in SearchOutcomes(state.target_subreddits[i])} :
          /\ state' = Merge(state, search_node(state, outcomes))
          /\ faults' = {f \in faults : f.tool = "comments"}
                            \cup SearchFaults(state, outcomes)
          /\ obtained' = SearchYield(outcomes)
    /\ node' = Edges[node]
    /\ steps' = <<node>>
    /\ searches' = IF searches > MaxIterations THEN searches ELSE searches + 1
    /\ UNCHANGED <<skipped, fetches, revisited, reordered, loaderVars>>

AnalyzeStep ==
    /\ node = "analyze"
    /\ \E fetch \in [ToFetch(state) -> CommentOutcomes] :
          /\ state' = Merge(state, analyze_node(state, fetch))
          /\ skipped' = skipped \cup
                SkippedThreads(state.visited_threads, Usernames(state.candidates),
                               state.threads_to_process, fetch,
                               state.min_intent_score)
          /\ faults' = faults \cup CommentFaults(fetch)
          /\ obtained' = CommentYield(fetch, state.min_intent_score)
          /\ fetches' = [id \in ThreadIds |->
                            fetches[id] + Count(AnalyzeLoop(state, fetch).fetched, id)]
          /\ reordered' = ReorderedUsernames(state, fetch)
    /\ revisited' = Revisited(state, {f.at : f \in {g \in faults : g.tool = "comments"}})
    /\ node' = Edges[node]
    /\ steps' = Append(steps, node)
    /\ UNCHANGED <<searches, loaderVars>>

CheckStep ==
    /\ node = "check_conditions"
    /\ state' = Merge(state, check_conditions_node(state))
    /\ node' = Route(state')
    /\ steps' = Append(steps, node)
    /\ UNCHANGED <<skipped, faults, obtained, fetches, revisited, reordered,
                   searches, loaderVars>>

NextScout == SearchStep \/ AnalyzeStep \/ CheckStep

(***************************************************************************)
(* The agent loader (agent_loader.py), for one agent identifier            *)
(***************************************************************************)
Callers == {1, 2}

\* A file name is [stem, ext]: name.endswith(".py") is ext = "py" and
\* name[:-3] is stem.
AgentYaml == [stem |-> "agent", ext |-> "yaml"]
InitPy == [stem |-> "__init__", ext |-> "py"]
FileNames == {AgentYaml, InitPy, [stem |-> "a", ext |-> "py"],
              [stem |-> "b", ext |-> "py"]}
Contents == {"v1", "v2"}

Names(files) == {files[i].name : i \in 1..Len(files)}

\* The "files" lists the store can hold for the agent: one entry per name.
ArtifactSets ==
    {f \in SeqsUpTo([name : FileNames, content : Contents], MaxFiles) :
        Cardinality(Names(f)) = Len(f)}

\* What find_one can answer: no record, or a record with its files.
NoDoc == [found |-> FALSE, files |-> <<>>]
StoreAnswers == {NoDoc} \cup {[found |-> TRUE, files |-> f] : f \in ArtifactSets}

\* The answers used where two callers race.
RaceAnswers ==
    { NoDoc,
      [found |-> TRUE,
       files |-> <<[name |-> AgentYaml, content |-> "v1"],
                   [name |-> [stem |-> "a", ext |-> "py"], content |-> "v1"]>>],
      [found |-> TRUE,
       files |-> <<[name |-> AgentYaml, content |-> "v2"],
                   [name |-> [stem |-> "b", ext |-> "py"], content |-> "v2"]>>] }

Absent == [exists |-> FALSE, files |-> <<>>]
EmptyDir == [exists |-> TRUE, files |-> <<>>]

\* open(path, "w"); f.write(content): the file is created or replaced.
WriteTo(dir, file) ==
    [exists |-> TRUE,
     files |-> [n \in DOMAIN dir.files \cup {file.name} |->
                  IF n = file.name THEN file.content ELSE dir.files[n]]]

Unlink(dir, name) ==
    [exists |-> dir.exists,
     files |-> [n \in DOMAIN dir.files \ {name} |-> dir.files[n]]]

\* The directory a complete, undisturbed materialization of files leaves.
RECURSIVE WriteAll(_, _)
WriteAll(dir, files) ==
    IF files = <<>> THEN dir ELSE WriteAll(WriteTo(dir, Head(files)), Tail(files))

Mirror(files) == WriteAll(EmptyDir, files)

\* f for f in os.listdir(agent_dir) if f.endswith(".py") and f != "__init__.py"
PyFiles(dir) == {n \in DOMAIN dir.files : n.ext = "py" /\ n /= InitPy}

\* What an agent script must define for the host to run it, and what the
\* code of each content defines at module level.
RequiredCapabilities == {"agent_graph", "get_initial_state", "get_result"}

Capabilities(content) ==
    IF content = "v1" THEN {"agent_graph", "get_initial_state", "get_result"}
    ELSE {"agent_graph", "get_initial_state"}

AgentId == "A"
ModuleName(script_name) == <<"agents_cache", AgentId, script_name.stem>>

\* Observation taken at a successful fetch and kept until the descriptor
\* check: the directory as it was then, and whether the fetched ArtifactSet
\* is the one fetched (and materialized) just before.
NoSnapshot == [taken |-> FALSE, same |-> FALSE, dir |-> Absent]

\* Taken when no other load is in flight.
Snapshot(t, doc) ==
    IF \A u \in Callers \ {t} : call[u].pc = "idle"
    THEN [taken |-> TRUE, same |-> (latest = doc), dir |-> fs]
    ELSE NoSnapshot

\* No module is registered under the name.
Unregistered == "Unregistered"

\* replaced is an observation: what sys.modules held under the module name
\* when this call registered its module.
IdleCall ==
    [pc |-> "idle", agent_doc |-> NoDoc, entries |-> {}, idx |-> 0,
     script_name |-> None, module |-> None, err |-> None, before |-> NoSnapshot,
     replaced |-> Unregistered]

Fail(t, e) == call' = [call EXCEPT ![t].pc = "failed", ![t].err = e]

Goto(t, label) == call' = [call EXCEPT ![t].pc = label]

\* get_agent_module is entered; it calls _fetch_and_save_agent at once.
Call(t) ==
    /\ call[t].pc = "idle"
    /\ Goto(t, "fetch")
    /\ UNCHANGED <<fs, sys_modules, uri_set, latest, selected, scoutVars>>

FetchFromDeletesFirst(t, answers) ==
    /\ call[t].pc = "fetch"
    /\ IF ~uri_set
       THEN Fail(t, "StoreUnavailable") /\ UNCHANGED <<latest, selected>>
       ELSE \E doc \in answers :
              IF ~doc.found
              THEN /\ call' = [call EXCEPT ![t].pc = "failed", ![t].err = "NotFound",
                                           ![t].agent_doc = doc]
                   /\ UNCHANGED <<latest, selected>>
              ELSE /\ call' = [call EXCEPT
                                ![t].pc = "exists",
                                ![t].agent_doc = doc,
                                ![t].before = Snapshot(t, doc)]
                   /\ latest' = doc
                   /\ selected' = IF latest = doc THEN selected ELSE {}
    /\ fs' = Absent
    /\ UNCHANGED <<sys_modules, uri_set, scoutVars>>

FetchFromMakesDirFirst(t, answers) ==
    /\ call[t].pc = "fetch"
    /\ IF ~uri_set
       THEN Fail(t, "StoreUnavailable") /\ UNCHANGED <<latest, selected, fs>>
       ELSE \E doc \in answers :
              IF ~doc.found
              THEN /\ call' = [call EXCEPT ![t].pc = "failed", ![t].err = "NotFound",
                                           ![t].agent_doc = doc]
                   /\ fs' = EmptyDir
                   /\ UNCHANGED <<latest, selected>>
              ELSE /\ call' = [call EXCEPT
                                ![t].pc = "exists",
                                ![t].agent_doc = doc,
                                ![t].before = Snapshot(t, doc)]
                   /\ latest' = doc
                   /\ selected' = IF latest = doc THEN selected ELSE {}
                   /\ UNCHANGED fs
    /\ UNCHANGED <<sys_modules, uri_set, scoutVars>>

\* self.db.agents.find_one(...) and the not-found test.
FetchFrom(t, answers) ==
    /\ call[t].pc = "fetch"
    /\ IF ~uri_set
       THEN Fail(t, "StoreUnavailable") /\ UNCHANGED <<latest, selected>>
       ELSE \E doc \in answers :
              IF ~doc.found
              THEN /\ call' = [call EXCEPT ![t].pc = "failed", ![t].err = "NotFound",
                                           ![t].agent_doc = doc]
                   /\ UNCHANGED <<latest, selected>>
              ELSE /\ call' = [call EXCEPT
                                ![t].pc = "exists",
                                ![t].agent_doc = doc,
                                ![t].before = Snapshot(t, doc)]
                   /\ latest' = doc
                   /\ selected' = IF latest = doc THEN selected ELSE {}
    /\ UNCHANGED <<fs, sys_modules, uri_set, scoutVars>>

ExistsTestKeepsDir(t) ==
    /\ call[t].pc = "exists"
    /\ call' = [call EXCEPT
                  ![t].pc = IF ~fs.exists THEN "makedirs"
                            ELSE IF call[t].agent_doc.files = <<>> THEN "yaml_check"
                            ELSE "write",
                  ![t].idx = 1]
    /\ UNCHANGED <<fs, sys_modules, uri_set, latest, selected, scoutVars>>

\* if os.path.exists(dest_dir):
ExistsTest(t) ==
    /\ call[t].pc = "exists"
    /\ Goto(t, IF fs.exists THEN "rmtree" ELSE "makedirs")
    /\ UNCHANGED <<fs, sys_modules, uri_set, latest, selected, scoutVars>>

\* shutil.rmtree, first part: list the directory.
RmtreeScan(t) ==
    /\ call[t].pc = "rmtree"
    /\ IF fs.exists
       THEN call' = [call EXCEPT ![t].pc = "unlink", ![t].entries = DOMAIN fs.files]
       ELSE Fail(t, "FileNotFoundError")
    /\ UNCHANGED <<fs, sys_modules, uri_set, latest, selected, scoutVars>>

\* shutil.rmtree, second part: unlink one listed entry.
RmtreeUnlink(t) ==
    /\ call[t].pc = "unlink"
    /\ \E n \in call[t].entries :
          IF n \in DOMAIN fs.files
          THEN /\ fs' = Unlink(fs, n)
               /\ call' = [call EXCEPT ![t].entries = @ \ {n}]
          ELSE /\ Fail(t, "FileNotFoundError")
               /\ UNCHANGED fs
    /\ UNCHANGED <<sys_modules, uri_set, latest, selected, scoutVars>>

RmtreeRmdirThenReturn(t) ==
    /\ call[t].pc = "unlink"
    /\ call[t].entries = {}
    /\ IF fs.exists /\ DOMAIN fs.files = {}
       THEN fs' = Absent /\ Goto(t, "yaml_check")
       ELSE /\ Fail(t, IF fs.exists THEN "OSError" ELSE "FileNotFoundError")
            /\ UNCHANGED fs
    /\ UNCHANGED <<sys_modules, uri_set, latest, selected, scoutVars>>

\* shutil.rmtree, last part: remove the directory itself.
RmtreeRmdir(t) ==
    /\ call[t].pc = "unlink"
    /\ call[t].entries = {}
    /\ IF fs.exists /\ DOMAIN fs.files = {}
       THEN fs' = Absent /\ Goto(t, "makedirs")
       ELSE /\ Fail(t, IF fs.exists THEN "OSError" ELSE "FileNotFoundError")
            /\ UNCHANGED fs
    /\ UNCHANGED <<sys_modules, uri_set, latest, selected, scoutVars>>

\* os.makedirs(dest_dir)
Makedirs(t) ==
    /\ call[t].pc = "makedirs"
    /\ IF fs.exists
       THEN Fail(t, "FileExistsError") /\ UNCHANGED fs
       ELSE /\ fs' = EmptyDir
            /\ call' = [call EXCEPT
                          ![t].pc = IF call[t].agent_doc.files = <<>>
                                    THEN "yaml_check" ELSE "write",
                          ![t].idx = 1]
    /\ UNCHANGED <<sys_modules, uri_set, latest, selected, scoutVars>>

\* One pass of the loop over files: open(file_path, "w") and write.
WriteFile(t) ==
    /\ call[t].pc = "write"
    /\ IF fs.exists
       THEN /\ fs' = WriteTo(fs, call[t].agent_doc.files[call[t].idx])
            /\ call' = [call EXCEPT
                          ![t].pc = IF call[t].idx = Len(call[t].agent_doc.files)
                                    THEN "yaml_check" ELSE "write",
                          ![t].idx = @ + 1]
       ELSE Fail(t, "FileNotFoundError") /\ UNCHANGED fs
    /\ UNCHANGED <<sys_modules, uri_set, latest, selected, scoutVars>>

\* if not os.path.exists(agent_yaml_path): raise
YamlCheck(t) ==
    /\ call[t].pc = "yaml_check"
    /\ IF fs.exists /\ AgentYaml \in DOMAIN fs.files
       THEN call' = [call EXCEPT ![t].pc = "listdir", ![t].before = NoSnapshot]
       ELSE call' = [call EXCEPT ![t].pc = "failed", ![t].err = "FileNotFoundError",
                                 ![t].before = NoSnapshot]
    /\ UNCHANGED <<fs, sys_modules, uri_set, latest, selected, scoutVars>>

\* py_files = [...]; script_name = py_files[0]: os.listdir gives the names
\* in an order of its own, so any of the candidates can come first.
ListDir(t) ==
    /\ call[t].pc = "listdir"
    /\ IF fs.exists /\ PyFiles(fs) /= {}
       THEN \E s \in PyFiles(fs) :
              call' = [call EXCEPT ![t].pc = "import", ![t].script_name = s]
       ELSE Fail(t, "FileNotFoundError")
    /\ UNCHANGED <<fs, sys_modules, uri_set, latest, selected, scoutVars>>

ImportReusesRegistered(t) ==
    /\ call[t].pc = "import"
    /\ LET name == ModuleName(call[t].script_name)
           old == IF name \in DOMAIN sys_modules THEN sys_modules[name]
                  ELSE Unregistered
           code == IF old \notin {Unregistered, None} THEN old
                   ELSE IF fs.exists /\ call[t].script_name \in DOMAIN fs.files
                   THEN fs.files[call[t].script_name] ELSE None
       IN /\ sys_modules' = [n \in DOMAIN sys_modules \cup {name} |->
                               IF n = name THEN code ELSE sys_modules[n]]
          /\ IF code = None
             THEN call' = [call EXCEPT ![t].pc = "failed",
                                       ![t].err = "FileNotFoundError",
                                       ![t].replaced = old]
             ELSE call' = [call EXCEPT ![t].pc = "done", ![t].module = code,
                                       ![t].replaced = old]
    /\ selected' = {call[t].script_name}
    /\ UNCHANGED <<fs, uri_set, latest, scoutVars>>

\* sys.modules[module_name] = module; spec.loader.exec_module(module)
Import(t) ==
    /\ call[t].pc = "import"
    /\ LET name == ModuleName(call[t].script_name)
           old == IF name \in DOMAIN sys_modules THEN sys_modules[name]
                  ELSE Unregistered
           code == IF fs.exists /\ call[t].script_name \in DOMAIN fs.files
                   THEN fs.files[call[t].script_name] ELSE None
       IN /\ sys_modules' = [n \in DOMAIN sys_modules \cup {name} |->
                               IF n = name THEN code ELSE sys_modules[n]]
          /\ IF code = None
             THEN call' = [call EXCEPT ![t].pc = "failed",
                                       ![t].err = "FileNotFoundError",
                                       ![t].replaced = old]
             ELSE call' = [call EXCEPT ![t].pc = "done", ![t].module = code,
                                       ![t].replaced = old]
    /\ selected' = {call[t].script_name}
    /\ UNCHANGED <<fs, uri_set, latest, scoutVars>>

\* The call has returned or raised; the caller may call again.
Return(t) ==
    /\ call[t].pc \in {"done", "failed"}
    /\ call' = [call EXCEPT ![t] = IdleCall]
    /\ UNCHANGED <<fs, sys_modules, uri_set, latest, selected, scoutVars>>

Fetch(t) == FetchFrom(t, StoreAnswers)

RaceFetch(t) == FetchFrom(t, RaceAnswers)

\* The workflow fields while only the loader runs, and the reverse.
ScoutAtRest ==
    /\ state = get_initial_state([query |-> "q", target_subreddits |-> <<"s1", "s2">>,
                                  max_users |-> 1, min_intent_score |-> 70])
    /\ node = "search"
    /\ NothingObserved

LoaderAtRest ==
    /\ fs = Absent
    /\ call = [t \in Callers |-> IdleCall]
    /\ sys_modules = <<>>
    /\ uri_set = TRUE
    /\ latest = NoDoc
    /\ selected = {}

\* One caller at a time; the cache may hold an agent from an earlier run.
InitLoad ==
    /\ ScoutAtRest
    /\ fs \in {Absent} \cup {Mirror(f) : f \in ArtifactSets}
    /\ call = [t \in Callers |-> IdleCall]
    /\ sys_modules = <<>>
    /\ uri_set \in BOOLEAN
    /\ latest = NoDoc
    /\ selected = {}

NextLoad ==
    \/ Call(1)
    \/ Fetch(1)
    \/ ExistsTest(1)
    \/ RmtreeScan(1)
    \/ RmtreeUnlink(1)
    \/ RmtreeRmdir(1)
    \/ Makedirs(1)
    \/ WriteFile(1)
    \/ YamlCheck(1)
    \/ ListDir(1)
    \/ Import(1)
    \/ Return(1)

SpecLoad == InitLoad /\ [][NextLoad]_vars

\* Two callers load the same agent concurrently.
InitRace == ScoutAtRest /\ LoaderAtRest

NextRace ==
    \E t \in Callers :
        \/ Call(t)
        \/ RaceFetch(t)
        \/ ExistsTest(t)
        \/ RmtreeScan(t)
        \/ RmtreeUnlink(t)
        \/ RmtreeRmdir(t)
        \/ Makedirs(t)
        \/ WriteFile(t)
        \/ YamlCheck(t)
        \/ ListDir(t)
        \/ Import(t)
        \/ Return(t)

SpecRace == InitRace /\ [][NextRace]_vars

\* A run of the workflow; the loader does not act.
Init == InitScout /\ LoaderAtRest

Spec == Init /\ [][NextScout]_vars

\* The engine is synchronous: a run that can take a step takes it.
LiveSpec == Spec /\ WF_vars(NextScout)

(***************************************************************************)
(* Claims about the workflow                                               *)
(***************************************************************************)

\* C1: in every reachable state of a run, no two entries of candidates have
\* the same username, however often a thread or an author is met again.
CandidatesUnique ==
    \A i, j \in 1..Len(state.candidates) :
        i /= j => state.candidates[i].username /= state.candidates[j].username

\* A qualifying comment of a user already in candidates was met and dropped.
CandidatesUniqueWitness ==
    /\ skipped /= {}
    /\ Cardinality(state.visited_threads) = 2
    /\ Len(state.candidates) = 2

\* C2: every run of the graph eventually reaches END.
Termination == <>(node = "END")

\* A run ended by the iteration bound, the target count never reached.
TerminationWitness ==
    /\ node = "END"
    /\ state.iteration = MaxIterations + 1
    /\ Len(state.candidates) < state.max_users

\* C3: a candidate, once appended, stays in candidates with all its fields
\* unchanged, and no other entry for its username appears.
FirstWriteWins ==
    [][\A c \in Range(state.candidates) :
          /\ c \in Range(state'.candidates)
          /\ \A d \in Range(state'.candidates) : d.username = c.username => d = c]_vars

\* A later qualifying comment of a stored user had another score than the
\* stored one, and the stored entry kept its score.
FirstWriteWinsWitness ==
    \E k \in skipped : \E c \in Range(state.candidates) :
        c.username = k.username /\ c.intent_score /= k.intent_score

\* C4: the result of a completed run has status success and at most
\* max_users candidates.
ResultWithinTarget ==
    node = "END" =>
        /\ get_result(state).status = "success"
        /\ Len(get_result(state).candidates) >= 0
        /\ Len(get_result(state).candidates) <= state.max_users

\* C16: a search call or a comment fetch that raises is absorbed in its
\* step: what the calls of the step returned is kept (the threads in the
\* work queue, the qualifying authors in candidates), no candidate is
\* dropped, the run has a next step until it is at END, and the result at
\* END is a success.
StepFailureAbsorbed ==
    /\ [](/\ node = "analyze" =>
                obtained \subseteq {state.threads_to_process[i].id :
                                      i \in 1..Len(state.threads_to_process)}
          /\ node = "check_conditions" => obtained \subseteq Usernames(state.candidates)
          /\ node /= "END" => ENABLED NextScout
          /\ node = "END" => get_result(state).status = "success")
    /\ [][Range(state.candidates) \subseteq Range(state'.candidates)]_vars

\* A run ended after a search call and a comment fetch had raised, with a
\* candidate found in another subreddit and another thread.
StepFailureWitness ==
    /\ node = "END"
    /\ \E f \in faults, c \in Range(state.candidates) :
          f.tool = "search" /\ c.subreddit /= f.at
    /\ \E f \in faults, c \in Range(state.candidates), p \in Submissions :
          f.tool = "comments" /\ p.id = f.at /\ c.thread_url /= Url(p.permalink)

\* C17: the usernames in candidates after analyze_node are the same for
\* every order of the work queue and of the comments of each thread.
OrderIndependentDedup ==
    reordered /= {} => reordered = {Usernames(state.candidates)}

\* Two users were stored and a qualifying comment of one of them, with
\* another score than the stored one, was dropped: the order decided the
\* stored fields.
OrderIndependentWitness ==
    /\ node = "check_conditions"
    /\ Cardinality(Usernames(state.candidates)) = 2
    /\ \E k \in skipped : \E c \in Range(state.candidates) :
          c.username = k.username /\ c.intent_score /= k.intent_score

StepCycle == <<"search", "analyze", "check_conditions">>

\* C18: the executed steps are repetitions of search, analyze,
\* check_conditions in that order: search is entered only at the start and
\* after a complete repetition, every other step directly after the step
\* before it in the cycle; END is entered only directly after
\* check_conditions, and the reported metadata.iterations is then at least 1.
StepOrdering ==
    /\ Len(steps) <= 3
    /\ \A i \in 1..Len(steps) : steps[i] = StepCycle[i]
    /\ node = "search" => steps \in {<<>>, StepCycle}
    /\ node = "analyze" => steps = <<"search">>
    /\ node = "check_conditions" => steps = <<"search", "analyze">>
    /\ node = "END" =>
          /\ steps = StepCycle
          /\ get_result(state).metadata.iterations >= 1

\* A run of as many repetitions as the iteration bound allows has ended.
StepOrderingWitness ==
    /\ node = "END"
    /\ steps = StepCycle
    /\ get_result(state).metadata.iterations = MaxIterations

\* C19: after check_conditions, is_complete is true exactly when
\* len(candidates) >= max_users or iteration > 3; the router goes to END
\* exactly when is_complete is true and to search exactly when it is false;
\* a check that sees the target count reached is never followed by search.
CompletionRule ==
    /\ []((steps /= <<>> /\ steps[Len(steps)] = "check_conditions") =>
            /\ state.is_complete <=>
                  (Len(state.candidates) >= state.max_users
                      \/ state.iteration > MaxIterations)
            /\ node = "END" <=> state.is_complete
            /\ node = "search" <=> ~state.is_complete)
    /\ [][(node = "check_conditions" /\ Len(state.candidates) >= state.max_users)
              => node' = "END"]_vars

\* A check with a candidate found, the target count not reached and the
\* iteration bound not hit has sent the run back to search.
CompletionRuleWitness ==
    /\ node = "search"
    /\ steps = StepCycle
    /\ Len(state.candidates) = 1
    /\ state.max_users = 2
    /\ ~state.is_complete

\* C20: analyze leaves the work queue empty and every queued thread URL in
\* visited_threads; visited_threads never loses an element; the comments of
\* a thread are fetched at most once in a run, whether the fetch failed or
\* not.
VisitedDiscipline ==
    /\ [](/\ (steps /= <<>> /\ steps[Len(steps)] = "analyze") =>
                state.threads_to_process = <<>>
          /\ \A id \in ThreadIds : fetches[id] <= 1)
    /\ [][/\ state.visited_threads \subseteq state'.visited_threads
          /\ node = "analyze" =>
                \A i \in 1..Len(state.threads_to_process) :
                    state.threads_to_process[i].url \in state'.visited_threads]_vars

\* A thread whose comment fetch had raised in an earlier iteration was
\* queued again and was not fetched again.
VisitedDisciplineWitness ==
    \E id \in revisited :
        /\ [tool |-> "comments", at |-> id] \in faults
        /\ fetches[id] = 1

InputFields == {"query", "target_subreddits", "max_users", "min_intent_score",
                "reddit_creds"}

\* The fields of st that differ in st2.
Changed(st, st2) == {k \in DOMAIN st : st[k] /= st2[k]}

\* C21: search changes only threads_to_process and iteration; analyze only
\* visited_threads, candidates and threads_to_process; check_conditions only
\* is_complete; no step changes an input field, so the input fields keep
\* the values of the initial state.
StepFrames ==
    [][/\ DOMAIN state' = DOMAIN state
       /\ node = "search" =>
             Changed(state, state') \subseteq {"threads_to_process", "iteration"}
       /\ node = "analyze" =>
             Changed(state, state') \subseteq
                 {"visited_threads", "candidates", "threads_to_process"}
       /\ node = "check_conditions" => Changed(state, state') \subseteq {"is_complete"}
       /\ Changed(state, state') \cap InputFields = {}]_vars

\* Every step has run and changed each field it may change, in a run that
\* went back to search.
StepFramesWitness ==
    /\ node = "search"
    /\ steps = StepCycle
    /\ state.iteration = InitialIteration + 1
    /\ state.visited_threads /= {}
    /\ state.candidates /= <<>>

\* C22: search runs at most 3 times, iteration never exceeds 4 and is one
\* more than the number of search steps run, and the metadata.iterations of
\* the result at END is that number, between 1 and 3.
IterationBound ==
    /\ searches <= MaxIterations
    /\ state.iteration <= MaxIterations + 1
    /\ state.iteration = InitialIteration + searches
    /\ node = "END" =>
          /\ get_result(state).metadata.iterations = searches
          /\ get_result(state).metadata.iterations >= 1
          /\ get_result(state).metadata.iterations <= MaxIterations

\* A run ended after the most search steps the bound allows.
IterationBoundWitness ==
    /\ node = "END"
    /\ searches = MaxIterations
    /\ get_result(state).metadata.iterations = searches

\* C23: the label should_continue returns is a key of the conditional edge
\* map, every edge leads to a declared node or to END, and the run is never
\* at a routing error.
WellFormedRouting ==
    /\ should_continue(state) \in DOMAIN ConditionalEdges
    /\ EntryPoint \in Nodes
    /\ DOMAIN Edges \cup {"check_conditions"} = Nodes
    /\ \A n \in DOMAIN Edges : Edges[n] \in Nodes
    /\ \A l \in DOMAIN ConditionalEdges : ConditionalEdges[l] \in Nodes \cup {"END"}
    /\ node \in Nodes \cup {"END"}
    /\ node /= "RoutingError"

\* The router has returned continue and then end, the target count reached.
WellFormedRoutingWitness ==
    /\ node = "END"
    /\ searches = 2
    /\ should_continue(state) = "end"
    /\ Len(state.candidates) >= state.max_users

(***************************************************************************)
(* Claims about the loader                                                 *)
(***************************************************************************)
Reading(t) == call[t].pc \in {"yaml_check", "listdir", "import"}

Saved(t) == call[t].pc \in {"yaml_check", "listdir", "import", "done"}

\* C5: whenever a call is about to read the cache directory (descriptor
\* check, file listing, script import), the directory is absent or holds
\* exactly the complete file set of one ArtifactSet of the store.
ReadsSeeCompleteEntry ==
    \A t \in Callers :
        Reading(t) =>
            \/ fs = Absent
            \/ \E d \in RaceAnswers : d.found /\ fs = Mirror(d.files)

\* C6: when two concurrent loads have both completed, the directory holds
\* exactly the names and contents of the latest fetched ArtifactSet.
FinalStateIsLatest ==
    (\A t \in Callers : call[t].pc = "done") => fs = Mirror(latest.files)

\* A directory a load can bind: it holds the descriptor and a script.
Bindable(dir) == dir.exists /\ AgentYaml \in DOMAIN dir.files /\ PyFiles(dir) /= {}

\* C7: a load whose store fetch failed while a cache directory from an
\* earlier successful load exists does not end in an error.
DegradedStoreFallback ==
    \A t \in Callers :
        (call[t].pc = "failed" /\ call[t].err \in {"NotFound", "StoreUnavailable"})
            => ~Bindable(fs)

\* C8: while no record of the agent has ever been fetched and no cache
\* directory exists, every load fails (with the not-found error when the
\* store answered) and the cache directory stays absent.
UnknownAgentNoWrite ==
    /\ [](\A t \in Callers :
            (latest = NoDoc /\ call[t].pc \notin {"idle", "fetch"}) =>
                /\ call[t].pc = "failed"
                /\ call[t].err = IF uri_set THEN "NotFound" ELSE "StoreUnavailable")
    /\ [][(latest = NoDoc /\ fs = Absent) => (latest' /= NoDoc \/ fs' = Absent)]_vars

\* A load of an unknown agent has failed with the not-found error.
UnknownAgentWitness ==
    /\ call[1].pc = "failed"
    /\ call[1].err = "NotFound"
    /\ latest = NoDoc
    /\ fs = Absent

\* C9: after a single successful _fetch_and_save_agent the directory holds
\* exactly the file names of the fetched ArtifactSet, each with its content.
ExactMirror ==
    \A t \in Callers :
        Saved(t) =>
            /\ fs.exists
            /\ DOMAIN fs.files = Names(call[t].agent_doc.files)
            /\ \A i \in 1..Len(call[t].agent_doc.files) :
                  fs.files[call[t].agent_doc.files[i].name]
                      = call[t].agent_doc.files[i].content

\* The refresh replaced a directory that held a file the new set lacks and
\* another content for a file the new set has.
ExactMirrorWitness ==
    /\ call[1].pc = "yaml_check"
    /\ \E n \in DOMAIN call[1].before.dir.files : n \notin DOMAIN fs.files
    /\ \E n \in DOMAIN call[1].before.dir.files :
          n \in DOMAIN fs.files /\ fs.files[n] /= call[1].before.dir.files[n]

\* C10: materializing the ArtifactSet that was materialized just before
\* leaves the directory exactly as the first materialization left it.
MaterializeIdempotent ==
    \A t \in Callers :
        (call[t].pc = "yaml_check" /\ call[t].before.same) => fs = call[t].before.dir

\* The same non-empty ArtifactSet was materialized twice in a row.
MaterializeIdempotentWitness ==
    /\ call[1].pc = "yaml_check"
    /\ call[1].before.same
    /\ Len(call[1].agent_doc.files) = MaxFiles

\* C11: a completed call has fetched a record of its own and returns the
\* code that record holds for the selected script, whatever an earlier
\* call fetched and bound.
FreshBinding ==
    \A t \in Callers :
        call[t].pc = "done" =>
            /\ call[t].agent_doc.found
            /\ \E i \in 1..Len(call[t].agent_doc.files) :
                  /\ call[t].agent_doc.files[i].name = call[t].script_name
                  /\ call[t].module = call[t].agent_doc.files[i].content

\* An earlier call had bound other code of the same script, and this call
\* returned the code of the record it fetched.
FreshBindingWitness ==
    /\ call[1].pc = "done"
    /\ call[1].replaced \notin {Unregistered, None}
    /\ call[1].replaced /= call[1].module

\* C12: a cache directory without agent.yaml that holds a candidate script
\* does not make the load fail.
DescriptorFallback ==
    \A t \in Callers :
        (call[t].pc = "failed" /\ call[t].err = "FileNotFoundError")
            => ~(fs.exists /\ AgentYaml \notin DOMAIN fs.files /\ PyFiles(fs) /= {})

\* C13: a load of the ArtifactSet the load before it materialized selects
\* the script that load selected.
DeterministicEntryPoint ==
    \A t \in Callers :
        (call[t].pc = "import" /\ selected /= {}) => call[t].script_name \in selected

\* C14: the module a call returns has all the required capabilities.
ContractRejection ==
    \A t \in Callers :
        call[t].pc = "done" => RequiredCapabilities \subseteq Capabilities(call[t].module)

\* C15: a call never registers its module under a name of sys.modules that
\* holds the module of another call.
CallScopedRegistration ==
    \A t \in Callers : call[t].replaced = Unregistered

\* The errors _fetch_and_save_agent raises for a failed lookup.
LookupErrors == {"StoreUnavailable", "NotFound"}

\* C24: the cache directory changes only in a call whose lookup has returned
\* a record; the step on which a lookup fails, for a missing store
\* configuration or a missing record, leaves the directory and its files as
\* they were.
FetchPrecedesDelete ==
    [][/\ fs' /= fs => \E t \in Callers : call[t].pc /= "fetch" /\ call[t].agent_doc.found
       /\ \A t \in Callers :
             (call[t].pc = "fetch" /\ call'[t].pc = "failed") =>
                 /\ call'[t].err \in LookupErrors
                 /\ ~call'[t].agent_doc.found
                 /\ fs' = fs]_vars

\* A lookup found no record after an earlier load had filled the directory
\* and bound a module; the directory still holds the earlier files.
FetchPrecedesDeleteWitness ==
    /\ call[1].pc = "failed"
    /\ call[1].err = "NotFound"
    /\ sys_modules /= <<>>
    /\ fs.exists
    /\ Cardinality(DOMAIN fs.files) = MaxFiles

====
